---- MODULE Spec2Model ----
(***************************************************************************)
(* State-machine model of deforestprob/cellneigh.py: the two neighbourhood *)
(* builders cellneigh() and cellneigh_ctry().                              *)
(*                                                                         *)
(* One behaviour is one call.  Init fixes the arguments; the actions are   *)
(* the successive blocks of the function body ("# Region", "# Cell number  *)
(* from region", the rasterisation of the country borders, one iteration   *)
(* of the (i, j) double loop, and the final conversion and return).        *)
(* Coordinates are planar metres, csize is in km.  Python's None is the    *)
(* empty tuple; a raster is <<RasterXSize, RasterYSize, GeoTransform>>.    *)
(* Arrays are 1-indexed sequences here, so mask[a, b] is mask[a+1][b+1].   *)
(***************************************************************************)
EXTENDS Integers, Sequences, FiniteSets, TLC

VARIABLES fn, raster, region, csize, rank,     \* the call and its arguments
          pc, exc, ret, stdout,                \* position, raised exception, returned value, printed lines
          Xmin, Xmax, Ymin, Ymax,              \* region
          ncol, nrow, ncell,                   \* grid
          mask, cell_in,                       \* cellneigh_ctry only
          i, j, nneigh, adj,                   \* the scan and its two append-only lists
          visited                              \* history: the cell each nneigh entry was appended for

vars == <<fn, raster, region, csize, rank, pc, exc, ret, stdout,
          Xmin, Xmax, Ymin, Ymax, ncol, nrow, ncell, mask, cell_in,
          i, j, nneigh, adj, visited>>

\* ---------------------------------------------------------------- bounds
MaxW == 3
MaxH == 3
MaxRank == 2
MaxCsize == 2
MaxIncluded == 3

None == <<>>

\* Explicit regions (Xmin, Xmax, Ymin, Ymax), whole kilometres wide and high.
Regions == {<<0, 1000 * w, 0, 1000 * h>> : w \in 1..MaxW, h \in 1..MaxH}

\* Two north-up rasters: 2 x 2 pixels of 1000 m, and 6 x 2 pixels of 500 m.
Rasters == {<<2, 2, <<0, 1000, 0, 2000, 0, -1000>>>>,
            <<6, 2, <<0, 500, 0, 1000, 0, -500>>>>}

\* Ranks tried, with one rank (5) larger than every grid of the model.
Ranks == (0..MaxRank) \cup {5}

Csizes == (-MaxCsize)..MaxCsize

\* ---------------------------------------------------------------- helpers
Min(a, b) == IF a <= b THEN a ELSE b

Range(s) == {s[k] : k \in DOMAIN s}

RECURSIVE SumSeq(_)
SumSeq(s) == IF s = <<>> THEN 0 ELSE s[1] + SumSeq(Tail(s))

\* Python's s[lo:hi] on a list.
Slice(s, lo, hi) ==
    LET h == Min(hi, Len(s))
    IN  IF lo >= h THEN <<>> ELSE SubSeq(s, lo + 1, h)

\* ---------------------------------------------------------------- region
\* Lines 31-47: the region from the raster's georeferencing, else from the
\* explicit tuple, else nothing (the caller is told and the process exits).
RegionOfDefault(ras, reg) ==
    IF ras # None
    THEN LET gt == ras[3]
         IN  <<gt[1], gt[1] + gt[2] * ras[1], gt[4] + gt[6] * ras[2], gt[4]>>
    ELSE IF reg # None THEN <<reg[1], reg[2], reg[3], reg[4]>>
    ELSE <<0, 1000, 0, 1000>>

RegionOf(ras, reg) ==
    IF ras # None
    THEN LET gt == ras[3]
         IN  <<gt[1], gt[1] + gt[2] * ras[1], gt[4] + gt[6] * ras[2], gt[4]>>
    ELSE IF reg # None THEN <<reg[1], reg[2], reg[3], reg[4]>>
    ELSE None

\* np.int(np.ceil(a / b)) for b # 0, true division.
CeilDiv(a, b) == IF b > 0 THEN -((-a) \div b) ELSE -(a \div (-b))

\* ---------------------------------------------------------------- window
\* np.arange(-rank, rank + 1)
aroundShort(rk) == [k \in 1..(2 * rk) |-> k - rk - 1]

around(rk) == [k \in 1..(2 * rk + 1) |-> k - rk - 1]

\* I = i + around
Shift(c, ar) == [k \in 1..Len(ar) |-> c + ar[k]]

\* I[(I >= 0) & (I < nrow)]
ClipInclusive(S, n) == SelectSeq(S, LAMBDA v : v >= 0 /\ v <= n)

Clip(S, n) == SelectSeq(S, LAMBDA v : v >= 0 /\ v < n)

Iprim(ii, rk, nr) == Clip(Shift(ii, around(rk)), nr)

Jprim(jj, rk, nc) == Clip(Shift(jj, around(rk)), nc)

\* for cy in Iprim: for cx in Jprim: the (cy, cx) pairs in visiting order
Pairs(Ip, Jp) ==
    [k \in 1..(Len(Ip) * Len(Jp)) |->
        <<Ip[((k - 1) \div Len(Jp)) + 1], Jp[((k - 1) % Len(Jp)) + 1]>>]

\* not (cy == i and cx == j)
NotCenterAlways(cy, cx, ii, jj) == TRUE

NotCenter(cy, cx, ii, jj) == ~(cy = ii /\ cx = jj)

\* cy * ncol + cx
LinearIdByRows(cy, cx, nc, nr) == cy * nr + cx

LinearId(cy, cx, nc, nr) == cy * nc + cx

\* len(Iprim) * len(Jprim) - 1
NeighCountWithCenter(Ip, Jp) == Len(Ip) * Len(Jp)

NeighCount(Ip, Jp) == Len(Ip) * Len(Jp) - 1

\* Lines 71-74: what one cell appends to adj.
CellAdj(ii, jj, rk, nr, nc) ==
    LET P    == Pairs(Iprim(ii, rk, nr), Jprim(jj, rk, nc))
        kept == SelectSeq(P, LAMBDA p : NotCenter(p[1], p[2], ii, jj))
    IN  [k \in 1..Len(kept) |-> LinearId(kept[k][1], kept[k][2], nc, nr)]

\* ---------------------------------------------------------------- mask
\* The masks the rasteriser may return for an nr x nc grid (values 0 / 1).
MaskCells(m) == UNION {{<<r, c>> : c \in DOMAIN m[r]} : r \in DOMAIN m}

Ones(m) == Cardinality({p \in MaskCells(m) : m[p[1]][p[2]] = 1})

Masks(nr, nc) == {m \in [1..nr -> [1..nc -> {0, 1}]] : Ones(m) <= MaxIncluded}

\* mask[a, b] raises IndexError outside the array (a, b >= 0 here).
InMask(m, a, b) == (a + 1) \in DOMAIN m /\ (b + 1) \in DOMAIN m[a + 1]

MaskAt(m, a, b) == m[a + 1][b + 1]

\* Line 135: np.where(mask == 1), the (y, x) pairs in row-major order.
WhereColumnMajor(m) ==
    LET nr == Len(m)
        nc == IF nr = 0 THEN 0 ELSE Len(m[1])
        all == [k \in 1..(nr * nc) |-> <<(k - 1) % nr, (k - 1) \div nr>>]
    IN  SelectSeq(all, LAMBDA p : MaskAt(m, p[1], p[2]) = 1)

Where(m) ==
    LET nr == Len(m)
        nc == IF nr = 0 THEN 0 ELSE Len(m[1])
        all == [k \in 1..(nr * nc) |-> <<(k - 1) \div nc, (k - 1) % nc>>]
    IN  SelectSeq(all, LAMBDA p : MaskAt(m, p[1], p[2]) = 1)

\* Line 136: cell_in = y_in * ncol + x_in
CellIn(m, nc) ==
    LET w == Where(m) IN [k \in 1..Len(w) |-> w[k][1] * nc + w[k][2]]

\* Line 154: the index pair with which the mask is read for candidate (cy, cx).
MaskIndex(cy, cx) == <<cx, cy>>

\* The candidate's mask read raises IndexError.
Raises(m, p, ii, jj) ==
    /\ NotCenter(p[1], p[2], ii, jj)
    /\ ~InMask(m, MaskIndex(p[1], p[2])[1], MaskIndex(p[1], p[2])[2])

\* Lines 152-156 for one included cell: the candidates visited before the
\* first raising mask read (all of them when none raises).
Visited(m, ii, jj, rk, nr, nc) ==
    LET P   == Pairs(Iprim(ii, rk, nr), Jprim(jj, rk, nc))
        bad == {k \in 1..Len(P) : Raises(m, P[k], ii, jj)}
        stop == IF bad = {} THEN Len(P) + 1
                ELSE CHOOSE k \in bad : \A l \in bad : k <= l
    IN  [raised |-> bad # {}, cands |-> SubSeq(P, 1, stop - 1)]

CellAdjCtry(m, ii, jj, rk, nr, nc) ==
    LET V    == Visited(m, ii, jj, rk, nr, nc).cands
        kept == SelectSeq(V, LAMBDA p :
                    /\ NotCenter(p[1], p[2], ii, jj)
                    /\ MaskAt(m, MaskIndex(p[1], p[2])[1], MaskIndex(p[1], p[2])[2]) = 1)
    IN  [k \in 1..Len(kept) |-> LinearId(kept[k][1], kept[k][2], nc, nr)]

\* ---------------------------------------------------------------- Init
Init ==
    /\ fn \in {"cellneigh", "cellneigh_ctry"}
    /\ raster \in {None} \cup Rasters
    /\ region \in {None} \cup Regions
    /\ csize \in Csizes
    /\ rank \in Ranks
    /\ pc = "Region"
    /\ exc = ""
    /\ ret = None
    /\ stdout = <<>>
    /\ Xmin = 0 /\ Xmax = 0 /\ Ymin = 0 /\ Ymax = 0
    /\ ncol = 0 /\ nrow = 0 /\ ncell = 0
    /\ mask = <<>>
    /\ cell_in = <<>>
    /\ i = 0 /\ j = 0
    /\ nneigh = <<>>
    /\ adj = <<>>
    /\ visited = <<>>

\* ---------------------------------------------------------------- actions
\* Lines 31-47 (cellneigh) and 97-113 (cellneigh_ctry).
Region ==
    /\ pc = "Region"
    /\ LET R == RegionOf(raster, region)
       IN  IF R # None
           THEN /\ Xmin' = R[1] /\ Xmax' = R[2] /\ Ymin' = R[3] /\ Ymax' = R[4]
                /\ pc' = "CellNumber"
                /\ UNCHANGED <<exc, stdout>>
           ELSE /\ stdout' = Append(stdout, <<"raster or region must be specified">>)
                /\ exc' = "SystemExit"
                /\ pc' = "raised"
                /\ UNCHANGED <<Xmin, Xmax, Ymin, Ymax>>
    /\ UNCHANGED <<fn, raster, region, csize, rank, ret, ncol, nrow, ncell,
                   mask, cell_in, i, j, nneigh, adj, visited>>

\* Lines 50-59 (cellneigh) and 116-122 (cellneigh_ctry).
CellNumber ==
    /\ pc = "CellNumber"
    /\ csize' = csize * 1000
    /\ IF csize = 0
       THEN /\ stdout' = Append(stdout, <<"Compute number of cells", csize, csize>>)
            /\ exc' = "ZeroDivisionError"
            /\ pc' = "raised"
            /\ UNCHANGED <<ncol, nrow, ncell>>
       ELSE /\ ncol' = CeilDiv(Xmax - Xmin, csize')
            /\ nrow' = CeilDiv(Ymax - Ymin, csize')
            /\ ncell' = ncol' * nrow'
            /\ stdout' = stdout \o <<<<"Compute number of cells", csize, csize>>,
                                     <<"cells", ncell', nrow', ncol'>>>>
            /\ pc' = IF fn = "cellneigh" THEN "Loop" ELSE "Rasterize"
            /\ UNCHANGED exc
    /\ UNCHANGED <<fn, raster, region, rank, ret, Xmin, Xmax, Ymin, Ymax,
                   mask, cell_in, i, j, nneigh, adj, visited>>

\* Lines 125-136: the rasteriser returns some nrow x ncol mask of 0 / 1.
Rasterize ==
    /\ pc = "Rasterize"
    /\ nrow >= 1 /\ ncol >= 1
    /\ \E m \in Masks(nrow, ncol) :
          /\ mask' = m
          /\ cell_in' = CellIn(m, ncol)
    /\ pc' = "Loop"
    /\ UNCHANGED <<fn, raster, region, csize, rank, exc, ret, stdout,
                   Xmin, Xmax, Ymin, Ymax, ncol, nrow, ncell,
                   i, j, nneigh, adj, visited>>

\* Lines 125-136 on a grid without cells (a negative cell size): what the
\* rasteriser does with a negative resolution is its own business; it either
\* fails or hands back an array without cells.
RasterizeNoCells ==
    /\ pc = "Rasterize"
    /\ ~(nrow >= 1 /\ ncol >= 1)
    /\ \/ /\ pc' = "raised"
          /\ exc' = "RasterizeError"
          /\ UNCHANGED <<mask, cell_in>>
       \/ /\ pc' = "Loop"
          /\ mask' = <<>>
          /\ cell_in' = CellIn(<<>>, ncol)
          /\ UNCHANGED exc
    /\ UNCHANGED <<fn, raster, region, csize, rank, ret, stdout,
                   Xmin, Xmax, Ymin, Ymax, ncol, nrow, ncell,
                   i, j, nneigh, adj, visited>>

InLoop == pc = "Loop" /\ i < nrow /\ j < ncol

LoopOver == pc = "Loop" /\ ~(i < nrow /\ j < ncol)

\* for i in range(nrow): for j in range(ncol): the next (i, j)
NextIJ == IF j + 1 < ncol THEN <<i, j + 1>> ELSE <<i + 1, 0>>

\* Lines 63-74: one iteration of the double loop of cellneigh.
ScanCell ==
    /\ fn = "cellneigh"
    /\ InLoop
    /\ nneigh' = Append(nneigh, NeighCount(Iprim(i, rank, nrow), Jprim(j, rank, ncol)))
    /\ adj' = adj \o CellAdj(i, j, rank, nrow, ncol)
    /\ visited' = Append(visited, i * ncol + j)
    /\ i' = NextIJ[1] /\ j' = NextIJ[2]
    /\ UNCHANGED <<fn, raster, region, csize, rank, pc, exc, ret, stdout,
                   Xmin, Xmax, Ymin, Ymax, ncol, nrow, ncell, mask, cell_in>>

\* Lines 75-78.
Return ==
    /\ fn = "cellneigh"
    /\ LoopOver
    /\ ret' = <<nneigh, adj>>
    /\ pc' = "done"
    /\ UNCHANGED <<fn, raster, region, csize, rank, exc, stdout,
                   Xmin, Xmax, Ymin, Ymax, ncol, nrow, ncell, mask, cell_in,
                   i, j, nneigh, adj, visited>>

\* Lines 143-157: one iteration of the double loop of cellneigh_ctry.
ScanCellCtry ==
    /\ fn = "cellneigh_ctry"
    /\ InLoop
    /\ IF MaskAt(mask, i, j) = 1
       THEN LET V == Visited(mask, i, j, rank, nrow, ncol)
                A == CellAdjCtry(mask, i, j, rank, nrow, ncol)
            IN  /\ adj' = adj \o A
                /\ IF V.raised
                   THEN /\ exc' = "IndexError"
                        /\ pc' = "raised"
                        /\ UNCHANGED <<nneigh, visited, i, j>>
                   ELSE /\ nneigh' = Append(nneigh, Len(A))
                        /\ visited' = Append(visited, i * ncol + j)
                        /\ i' = NextIJ[1] /\ j' = NextIJ[2]
                        /\ UNCHANGED <<pc, exc>>
       ELSE /\ i' = NextIJ[1] /\ j' = NextIJ[2]
            /\ UNCHANGED <<pc, exc, nneigh, adj, visited>>
    /\ UNCHANGED <<fn, raster, region, csize, rank, ret, stdout,
                   Xmin, Xmax, Ymin, Ymax, ncol, nrow, ncell, mask, cell_in>>

\* Lines 158-162.  cell_in is a numpy array, which has no index method: the
\* comprehension raises AttributeError on the first element of adj, and only
\* an empty adj gets through it.
ReturnCtry ==
    /\ fn = "cellneigh_ctry"
    /\ LoopOver
    /\ IF adj = <<>>
       THEN /\ ret' = <<nneigh, <<>>, cell_in>>
            /\ pc' = "done"
            /\ UNCHANGED exc
       ELSE /\ exc' = "AttributeError"
            /\ pc' = "raised"
            /\ UNCHANGED ret
    /\ UNCHANGED <<fn, raster, region, csize, rank, stdout,
                   Xmin, Xmax, Ymin, Ymax, ncol, nrow, ncell, mask, cell_in,
                   i, j, nneigh, adj, visited>>

Next ==
    \/ Region
    \/ CellNumber
    \/ Rasterize
    \/ RasterizeNoCells
    \/ ScanCell
    \/ Return
    \/ ScanCellCtry
    \/ ReturnCtry

Spec == Init /\ [][Next]_vars

\* ---------------------------------------------------------------- claims
Abs(x) == IF x < 0 THEN -x ELSE x

IsAscending(s) == \A k \in 1..(Len(s) - 1) : s[k] < s[k + 1]

\* The n-th segment of adj when it is sliced by the counts, as consumers do.
Segment(n) ==
    Slice(adj, SumSeq(SubSeq(nneigh, 1, n - 1)), SumSeq(SubSeq(nneigh, 1, n)))

RowOf(c) == c \div ncol

ColOf(c) == c % ncol

\* The cells of the clipped rank window of cell c, c itself left out.
NeighborSet(c) ==
    {id \in 0..(nrow * ncol - 1) :
        /\ Abs(RowOf(id) - RowOf(c)) <= rank
        /\ Abs(ColOf(id) - ColOf(c)) <= rank
        /\ id # c}

Interior(c) ==
    /\ 0 < RowOf(c) /\ RowOf(c) < nrow - 1
    /\ 0 < ColOf(c) /\ ColOf(c) < ncol - 1

Corner(c) == RowOf(c) \in {0, nrow - 1} /\ ColOf(c) \in {0, ncol - 1}

EdgeNotCorner(c) == ~Interior(c) /\ ~Corner(c)

\* A raster or a region was supplied and the cell size is positive.
ValidCall == (raster # None \/ region # None) /\ csize > 0

\* cellneigh_ctry got its mask.
AfterRasterize ==
    /\ fn = "cellneigh_ctry"
    /\ (pc \in {"Loop", "done"} \/ exc \in {"IndexError", "AttributeError"})

\* C1: in cellneigh, after every completed cell of the row-major scan and in
\* the returned pair, there is one count per completed cell and the counts
\* sum to the length of the adjacency list.
C1_CountsSumToAdjLength ==
    fn = "cellneigh" =>
        /\ SumSeq(nneigh) = Len(adj)
        /\ (pc = "Loop" /\ ncol >= 1 /\ nrow >= 1) => Len(nneigh) = i * ncol + j
        /\ pc = "done" => /\ ret = <<nneigh, adj>>
                          /\ SumSeq(ret[1]) = Len(ret[2])
                          /\ (ncol >= 1 /\ nrow >= 1) => Len(ret[1]) = ncell

C1_Witness ==
    /\ fn = "cellneigh" /\ pc = "done"
    /\ ncol = 3 /\ nrow = 3 /\ rank = 1
    /\ Len(adj) = 40

\* C2: in cellneigh the segment of every completed cell is the ascending list
\* of the linear ids of its clipped rank window without the cell itself; the
\* 3 x 3 grid at rank 1 and the 2 x 1 grid at rank 5 give the stated lists.
C2_SegmentIsClippedWindow ==
    fn = "cellneigh" =>
        /\ \A n \in 1..Len(nneigh) :
              /\ IsAscending(Segment(n))
              /\ Range(Segment(n)) = NeighborSet(n - 1)
        /\ (pc = "done" /\ ncol = 3 /\ nrow = 3 /\ rank = 1) =>
              /\ nneigh = <<3, 5, 3, 5, 8, 5, 3, 5, 3>>
              /\ Segment(5) = <<0, 1, 2, 3, 5, 6, 7, 8>>
        /\ (pc = "done" /\ ncol = 2 /\ nrow = 1 /\ rank = 5) =>
              /\ nneigh = <<1, 1>>
              /\ adj = <<1, 0>>

C2_Witness ==
    /\ fn = "cellneigh" /\ pc = "done"
    /\ ncol = 2 /\ nrow = 1 /\ rank = 5
    /\ Len(adj) = 2

\* C3 as stated: at rank 1 every interior cell has 8 neighbours, every corner
\* cell of a grid with ncol, nrow >= 2 has 3, every non-corner edge cell has 5.
C3_Rank1CountsAsStated ==
    (fn = "cellneigh" /\ rank = 1) =>
        \A n \in 1..Len(nneigh) :
            /\ Interior(n - 1) => nneigh[n] = 8
            /\ (Corner(n - 1) /\ ncol >= 2 /\ nrow >= 2) => nneigh[n] = 3
            /\ EdgeNotCorner(n - 1) => nneigh[n] = 5

\* C3 amended: the count of 5 for a non-corner edge cell needs ncol, nrow >= 2
\* as well (a one-row or one-column grid has edge cells with 2 neighbours).
C3_Rank1Counts ==
    (fn = "cellneigh" /\ rank = 1) =>
        \A n \in 1..Len(nneigh) :
            /\ Interior(n - 1) => nneigh[n] = 8
            /\ (Corner(n - 1) /\ ncol >= 2 /\ nrow >= 2) => nneigh[n] = 3
            /\ (EdgeNotCorner(n - 1) /\ ncol >= 2 /\ nrow >= 2) => nneigh[n] = 5

C3_Witness ==
    /\ fn = "cellneigh" /\ pc = "done" /\ rank = 1
    /\ ncol = 3 /\ nrow = 3
    /\ nneigh[1] = 3 /\ nneigh[2] = 5 /\ nneigh[5] = 8

\* C4: the adjacency returned by cellneigh is symmetric.
C4_Symmetric ==
    (fn = "cellneigh" /\ pc = "done") =>
        \A a, b \in 1..Len(nneigh) :
            (b - 1) \in Range(Segment(a)) => (a - 1) \in Range(Segment(b))

C4_Witness ==
    /\ fn = "cellneigh" /\ pc = "done"
    /\ ncol = 3 /\ nrow = 2 /\ rank = 2
    /\ 5 \in Range(Segment(1)) /\ 0 \in Range(Segment(6))

\* C5: in cellneigh no segment holds its own cell, during the scan and in
\* the returned adjacency.
C5_NoSelfLoop ==
    fn = "cellneigh" =>
        \A n \in 1..Len(nneigh) : (n - 1) \notin Range(Segment(n))

C5_Witness ==
    /\ fn = "cellneigh" /\ InLoop
    /\ rank >= 1 /\ Len(nneigh) >= 2 /\ Len(adj) >= 2

\* C6 as stated: for every mask cellneigh_ctry, called with a region and a
\* positive cell size, returns, with as many included cells as the mask has
\* ones and every adjacency value a compacted index in [0, k).
C6_MaskedReturnsCompactedIndices ==
    (fn = "cellneigh_ctry" /\ ValidCall /\ pc \in {"done", "raised"}) =>
        /\ pc = "done"
        /\ Len(ret[3]) = Ones(mask)
        /\ \A k \in DOMAIN ret[2] : ret[2][k] \in 0..(Len(ret[3]) - 1)

\* C7: with neither raster nor region both builders print the condition and
\* exit at once: no region, no grid dimension, no count, no adjacency entry,
\* no returned value.
C7_NeitherIsFatal ==
    (raster = None /\ region = None) =>
        /\ pc \in {"Region", "raised"}
        /\ pc = "raised" =>
              /\ exc = "SystemExit"
              /\ stdout = <<<<"raster or region must be specified">>>>
        /\ <<Xmin, Xmax, Ymin, Ymax>> = <<0, 0, 0, 0>>
        /\ <<ncol, nrow, ncell>> = <<0, 0, 0>>
        /\ nneigh = <<>> /\ adj = <<>> /\ cell_in = <<>> /\ mask = <<>>
        /\ ret = None

C7_Witness ==
    /\ raster = None /\ region = None
    /\ fn = "cellneigh_ctry"
    /\ pc = "raised" /\ exc = "SystemExit"

\* C8 as stated: with csize <= 0 cellneigh stops with an error and neither
\* computes grid dimensions nor returns a result.
C8_RejectsNonPositiveCsize ==
    (fn = "cellneigh" /\ csize <= 0) =>
        /\ pc \in {"Region", "CellNumber", "raised"}
        /\ ret = None

\* C9 as stated: in cellneigh_ctry the segment of an included cell is the
\* ascending list of the cells of its clipped window, other than itself,
\* whose mask value mask[row, col] is 1, and no mask read leaves the mask.
C9_MaskedSegmentIsMaskedWindow ==
    AfterRasterize =>
        /\ exc # "IndexError"
        /\ \A n \in 1..Len(nneigh) :
              /\ IsAscending(Segment(n))
              /\ Range(Segment(n)) =
                    {id \in NeighborSet(visited[n]) :
                        MaskAt(mask, RowOf(id), ColOf(id)) = 1}

\* C10: in cellneigh_ctry cell_in is the strictly ascending list of the
\* linear ids of the cells with mask 1; the counts are appended for the cells
\* of cell_in in its order, one for each once the loop is over; with no
\* included cell the call returns three empty outputs.
C10_CountsAlignWithCellIn ==
    AfterRasterize =>
        /\ IsAscending(cell_in)
        /\ Range(cell_in) =
              {(p[1] - 1) * ncol + (p[2] - 1) :
                  p \in {q \in MaskCells(mask) : mask[q[1]][q[2]] = 1}}
        /\ Len(cell_in) = Ones(mask)
        /\ Len(nneigh) = Len(visited)
        /\ visited = Slice(cell_in, 0, Len(visited))
        /\ (LoopOver \/ pc = "done" \/ exc = "AttributeError") => visited = cell_in
        /\ pc = "done" => ret[1] = nneigh /\ ret[3] = cell_in
        /\ cell_in = <<>> =>
              /\ pc # "raised"
              /\ pc = "done" => ret = << <<>>, <<>>, <<>> >>

C10_Witness ==
    /\ fn = "cellneigh_ctry" /\ pc = "done"
    /\ ncol = 3 /\ nrow = 3 /\ rank = 1
    /\ Len(cell_in) = 3 /\ Len(ret[1]) = 3

====
